---- MODULE Spec2Model ----
(***************************************************************************)
(* Model of the regulations.gov comment scraper.                           *)
(*                                                                         *)
(*   extract-comments.py          the checkpointed (resumable) variant     *)
(*   regulations_fda_scraping.py  the variant without a checkpoint         *)
(*                                                                         *)
(* The program is single-threaded.  Its call stack                         *)
(*   main -> get_comment_ids / get_comment_detail_data                     *)
(*        -> get_requests_response -> save_processed_ids                   *)
(* is modelled by one position variable per function (pc, ex_pc, save_pc): *)
(* a caller waits at a "..._wait" position until the callee has returned.  *)
(* The remote API, the operator (Ctrl-C) and the file system are the       *)
(* environment: their answers are drawn nondeterministically.              *)
(***************************************************************************)
EXTENDS Integers, Sequences, FiniteSets, TLC

(***************************************************************************)
(* Bounds of the model.                                                    *)
(***************************************************************************)
\* Number of distinct identifiers the remote system knows.
MaxIds == 4
\* Listing pages the backend serves at most, and items per page.
MaxPages == 2
PageLen == 2
\* Rate-limit (429) answers the backend gives at most per call, in a run.
MaxWaitsRun == 1
\* The same cap, and the largest attempt budget, for the executor alone.
MaxWaitsExec == 2
MaxTries == 3
\* Identifiers to process in a run that starts at the first file.
MaxFetch == 5
\* Identifiers the remote system knows when two runs follow each other.
MaxIdsTwoRuns == 3
\* Keys of one detail payload that do not hold a plain text.
MaxOddFields == 2
\* Identifiers the remote system knows in a run of the script without a
\* checkpoint.
MaxIdsPlain == 3

\* COMMENTS_PER_FILE (500 in the source) and the periodic-save period (50 in
\* the source), scaled down so that rotation and periodic saves happen within
\* MaxIds records.
COMMENTS_PER_FILE == 2
SAVE_EVERY == 2

(***************************************************************************)
(* Program constants.                                                      *)
(***************************************************************************)
\* num_of_tries passed by get_comment_ids and by get_comment_detail_data.
LIST_NUM_OF_TRIES == 3
DETAIL_NUM_OF_TRIES == 3
\* num_of_tries passed by both callers in regulations_fda_scraping.py.
PLAIN_NUM_OF_TRIES == 2
\* page_size: default argument, and the accepted inclusive range.
DEFAULT_PAGE_SIZE == 250
MIN_PAGE_SIZE == 5
MAX_PAGE_SIZE == 250

Ids == 1..MaxIds

\* The two scripts.
Variants == {"extract-comments", "regulations_fda_scraping"}

\* What one HTTP request can end in: the two except branches, or a response
\* whose status is in successful_http_status_codes, in rate_limit_status_codes,
\* or in neither.  A requests.Response is falsy exactly when its status is
\* 400 or above, so the statuses in neither tuple split in two: "error_status"
\* (>= 400, e.g. 500) and "other_status" (< 400, e.g. 204).
Outcomes == {"timeout", "exception", "success", "ratelimit",
             "error_status", "other_status"}

\* `not response` as the callers evaluate it: None, or Response.ok false.
Falsy(r) == r \in {"None", "ratelimit", "error_status"}

VARIABLES
    variant,                    \* which script runs
    \* ---- main ----
    pc,                         \* position in main
    failure,                    \* "none", or which except clause of main ran
    processed_comment_ids,      \* the in-memory Checkpoint Set
    file_counter,
    current_file_comment_count,
    comment_ids,                \* result of get_comment_ids
    comments_to_process,
    idx,                        \* position of the for loop (_idx)
    sinks,                      \* the CSV files created by this run, in order
    fOpen,                      \* the handle f of main is open: opened, and
                                \* close() not called on it
    localOpen,                  \* the same for a handle opened in
                                \* create_new_csv and not returned to main
    \* ---- get_comment_ids ----
    page_size,
    page_num,
    \* ---- get_requests_response ----
    ex_pc,
    num_of_tries,
    num_of_try,
    resp,
    \* ---- save_processed_ids and the checkpoint file ----
    save_pc,
    saveBuf,                    \* lines written to the handle, not yet closed
    ckExists,                   \* PROCESSED_IDS_FILE exists
    ckFile,                     \* its lines (one identifier per line)
    durable,                    \* history: the file when the last save began
    \* ---- history (observation only) ----
    loaded,                     \* the set load_processed_ids read
    fetched,                    \* identifiers passed to get_comment_detail_data
    failedIds,                  \* identifiers whose detail fetch returned None
    raisedIds,                  \* identifiers whose detail fetch raised
    reqCount,                   \* requests sent by the current executor call
    waitCount,                  \* rate-limit sleeps of the current call
    failCount,                  \* requests of the call that ended in a failure
    rlCount,                    \* rate-limit responses the call received
    lastStatus,                 \* outcome of the last request that got a response
    listRequests,               \* page numbers requested by get_comment_ids
    listBodies,                 \* what each listing request came back with
    pageItems,                  \* the items of the listing page just parsed
    printed,                    \* the closing messages main has printed
    run,                        \* 1 for a first run, 2 for the run after it
    prevIds,                    \* identifiers the run before discovered
    prevClean,                  \* the run before ended without any failure
    createdBy,                  \* which call created the checkpoint file
    \* ---- get_comment_detail_data: building the record ----
    comment_attributes,         \* "attributes" of the detail payload
    record                      \* the dict the function returns

mainVars == <<pc, failure, processed_comment_ids, file_counter,
              current_file_comment_count, comment_ids, comments_to_process,
              idx, sinks, fOpen, localOpen>>
discVars == <<page_size, page_num>>
exVars   == <<ex_pc, num_of_tries, num_of_try, resp>>
saveVars == <<save_pc, saveBuf, ckExists, ckFile, durable>>
histVars == <<loaded, fetched, failedIds, raisedIds, listRequests>>
cntVars  == <<reqCount, waitCount, failCount, rlCount, lastStatus>>
obsVars  == <<listBodies, pageItems, printed, run, prevIds, prevClean>>

recVars  == <<comment_attributes, record>>

vars == <<variant, mainVars, discVars, exVars, saveVars, histVars, cntVars,
          obsVars, createdBy, recVars>>

(***************************************************************************)
(* save_processed_ids: open(PROCESSED_IDS_FILE, "w") truncates the file,   *)
(* the loop writes one line per identifier to the handle, and leaving the  *)
(* with-block closes the handle, which puts the written lines in the file. *)
(***************************************************************************)
\* The identifiers the checkpoint file holds; none when there is no file.
Persisted == IF ckExists THEN ckFile ELSE {}

\* Whether PROCESSED_IDS_FILE exists after open(..., "w"), given whether it
\* existed before: the mode creates a missing file.
\* (Faulty variant: a missing file is not created.)
ExistsAfterOpenNoCreateBug(e) == e

ExistsAfterOpen(e) == TRUE

\* The caller of save_processed_ids: line 202 (rate limit), line 477
\* (periodic) or line 490 (finally).
SaveCaller ==
    IF ex_pc = "save_wait" THEN "rate_limit"
    ELSE IF pc = "periodic_wait" THEN "periodic"
    ELSE "finally"

SaveOpen ==
    /\ save_pc = "call"
    /\ durable' = Persisted
    /\ ckExists' = ExistsAfterOpen(ckExists)
    /\ createdBy' = IF ~ckExists /\ ckExists' THEN SaveCaller ELSE createdBy
    /\ ckFile' = {}
    /\ saveBuf' = {}
    /\ save_pc' = "write"
    /\ UNCHANGED <<variant, recVars, obsVars, mainVars, discVars, exVars,
                   histVars,
                   cntVars>>

SaveWrite ==
    /\ save_pc = "write"
    /\ \E id \in processed_comment_ids \ saveBuf :
          saveBuf' = saveBuf \cup {id}
    /\ UNCHANGED <<save_pc, ckExists, ckFile, durable>>
    /\ UNCHANGED <<variant, recVars, createdBy, obsVars, mainVars, discVars,
                   exVars, histVars,
                   cntVars>>

SaveClose ==
    /\ save_pc = "write"
    /\ saveBuf = processed_comment_ids
    /\ ckFile' = saveBuf
    /\ saveBuf' = {}
    /\ save_pc' = "ret"
    /\ UNCHANGED <<ckExists, durable>>
    /\ UNCHANGED <<variant, recVars, createdBy, obsVars, mainVars, discVars,
                   exVars, histVars,
                   cntVars>>

\* An exception that unwinds through the with-block of save_processed_ids
\* closes the handle: the file keeps the lines written so far.
FileAfterUnwind == IF save_pc = "write" THEN saveBuf ELSE ckFile

(***************************************************************************)
(* get_requests_response.                                                  *)
(***************************************************************************)
\* Line 137: the budget a call refuses.
\* (Faulty variant: a budget of zero is accepted.)
BudgetInvalidZeroBug(k) == k < 0

BudgetInvalid(k) == k < 1

\* Lines 137-144: the budget check, then resp = None, num_of_try = 1.
ExStart ==
    /\ ex_pc = "call"
    /\ IF BudgetInvalid(num_of_tries)
         THEN /\ ex_pc' = "raised"
              /\ UNCHANGED <<num_of_try, resp>>
         ELSE /\ ex_pc' = "loop"
              /\ num_of_try' = 1
              /\ resp' = "None"
    /\ UNCHANGED num_of_tries
    /\ UNCHANGED <<variant, recVars, createdBy, obsVars, mainVars, discVars,
                   saveVars, histVars,
                   cntVars>>

\* Line 147: the test that ends the loop.
\* (Faulty variant: one pass too many.)
BudgetExhaustedOffByOneBug(n, k) == n > k + 1

BudgetExhausted(n, k) == n > k

\* Lines 147-148 and 213: the budget is used up, return the last response.
ExExhausted ==
    /\ ex_pc = "loop"
    /\ BudgetExhausted(num_of_try, num_of_tries)
    /\ ex_pc' = "ret"
    /\ UNCHANGED <<num_of_tries, num_of_try, resp>>
    /\ UNCHANGED <<variant, recVars, createdBy, obsVars, mainVars, discVars,
                   saveVars, histVars,
                   cntVars>>

\* The attempt counter after a request that ended in the outcome o.
\* (Faulty variant: a rate-limit response counts as an attempt.)
AttemptAfterRateLimitBug(n, o) == IF o = "success" THEN n ELSE n + 1

\* (Faulty variant: a rate-limit response gives the attempts back.)
AttemptAfterRateLimitResetBug(n, o) ==
    IF o = "success" THEN n ELSE IF o = "ratelimit" THEN 1 ELSE n + 1

AttemptAfter(n, o) == IF o \in {"success", "ratelimit"} THEN n ELSE n + 1

\* The value of resp after a request that ended in the outcome o.
\* (Faulty variant: a network failure forgets the earlier response.)
RespAfterResetBug(r, o) == IF o \in {"timeout", "exception"} THEN "None" ELSE o

RespAfter(r, o) == IF o \in {"timeout", "exception"} THEN r ELSE o

\* Lines 197-204: what a call of the script v does first with a rate-limit
\* status: extract-comments.py saves the checkpoint (line 202) and then
\* sleeps, regulations_fda_scraping.py only sleeps.
\* (Faulty variant: the sleep comes without the save.)
AfterRateLimitNoSaveBug(v) == "sleep"

AfterRateLimit(v) == IF v = "extract-comments" THEN "save_wait" ELSE "sleep"

\* Lines 150-211: one pass of the loop that sends a request.
ExRequest(maxWaits) ==
    /\ ex_pc = "loop"
    /\ ~BudgetExhausted(num_of_try, num_of_tries)
    /\ \E o \in Outcomes :
          /\ o = "ratelimit" => waitCount < maxWaits
          /\ reqCount' = reqCount + 1
          /\ resp' = RespAfter(resp, o)
          /\ num_of_try' = AttemptAfter(num_of_try, o)
          /\ failCount' = IF o \in {"success", "ratelimit"}
                            THEN failCount ELSE failCount + 1
          /\ rlCount' = IF o = "ratelimit" THEN rlCount + 1 ELSE rlCount
          /\ lastStatus' = IF o \in {"timeout", "exception"}
                             THEN lastStatus ELSE o
          /\ CASE o = "success" ->
                    /\ ex_pc' = "ret"
                    /\ UNCHANGED save_pc
               [] o = "ratelimit" /\ AfterRateLimit(variant) = "save_wait" ->
                    /\ ex_pc' = "save_wait"
                    /\ save_pc' = "call"
               [] o = "ratelimit" /\ AfterRateLimit(variant) # "save_wait" ->
                    /\ ex_pc' = "sleep"
                    /\ UNCHANGED save_pc
               [] OTHER ->
                    /\ ex_pc' = "loop"
                    /\ UNCHANGED save_pc
    /\ UNCHANGED <<num_of_tries, waitCount, saveBuf, ckExists, ckFile,
                   durable>>
    /\ UNCHANGED <<variant, recVars, createdBy, obsVars, mainVars, discVars,
                   histVars>>

\* Line 202 has returned.
ExSaved ==
    /\ ex_pc = "save_wait"
    /\ save_pc = "ret"
    /\ save_pc' = "idle"
    /\ ex_pc' = "sleep"
    /\ UNCHANGED <<num_of_tries, num_of_try, resp, saveBuf, ckExists, ckFile,
                   durable>>
    /\ UNCHANGED <<variant, recVars, createdBy, obsVars, mainVars, discVars,
                   histVars, cntVars>>

\* Lines 203-204: do_sleep(rate_limit_wait_seconds); continue.
ExSleep ==
    /\ ex_pc = "sleep"
    /\ waitCount' = waitCount + 1
    /\ ex_pc' = "loop"
    /\ UNCHANGED <<num_of_tries, num_of_try, resp, reqCount, failCount,
                   rlCount, lastStatus>>
    /\ UNCHANGED <<variant, recVars, createdBy, obsVars, mainVars, discVars,
                   saveVars, histVars>>

(***************************************************************************)
(* The executor on its own: a caller that passes any budget.               *)
(***************************************************************************)
ExecInit ==
    /\ variant \in Variants
    /\ pc = "harness"
    /\ failure = "none"
    /\ processed_comment_ids \in SUBSET Ids
    /\ file_counter = 1
    /\ current_file_comment_count = 0
    /\ comment_ids = <<>>
    /\ comments_to_process = <<>>
    /\ idx = 0
    /\ sinks = <<>>
    /\ fOpen = FALSE
    /\ localOpen = FALSE
    /\ page_size = DEFAULT_PAGE_SIZE
    /\ page_num = 0
    /\ ex_pc = "idle"
    /\ num_of_tries = 0
    /\ num_of_try = 0
    /\ resp = "None"
    /\ save_pc = "idle"
    /\ saveBuf = {}
    /\ ckExists \in BOOLEAN
    /\ ckFile \in (IF ckExists THEN SUBSET Ids ELSE {{}})
    /\ durable = ckFile
    /\ loaded = {}
    /\ fetched = <<>>
    /\ failedIds = {}
    /\ raisedIds = {}
    /\ reqCount = 0
    /\ waitCount = 0
    /\ failCount = 0
    /\ rlCount = 0
    /\ lastStatus = "None"
    /\ listRequests = <<>>
    /\ listBodies = <<>>
    /\ pageItems = <<>>
    /\ printed = {}
    /\ run = 1
    /\ prevIds = {}
    /\ prevClean = FALSE
    /\ createdBy = "none"
    /\ comment_attributes = <<>>
    /\ record = <<>>

\* A call get_requests_response(url, num_of_tries = k).
HarnessCall ==
    /\ pc = "harness"
    /\ ex_pc \in {"idle", "ret", "raised"}
    /\ \E k \in -1..MaxTries : num_of_tries' = k
    /\ ex_pc' = "call"
    /\ num_of_try' = 0
    /\ resp' = "None"
    /\ reqCount' = 0
    /\ waitCount' = 0
    /\ failCount' = 0
    /\ rlCount' = 0
    /\ lastStatus' = "None"
    /\ UNCHANGED <<variant, recVars, createdBy, obsVars, mainVars, discVars,
                   saveVars, histVars>>

ExecNext ==
    \/ HarnessCall
    \/ ExStart
    \/ ExExhausted
    \/ ExRequest(MaxWaitsExec)
    \/ ExSaved
    \/ ExSleep
    \/ SaveOpen
    \/ SaveWrite
    \/ SaveClose

SpecExec == ExecInit /\ [][ExecNext]_vars

\* A step of a call that has begun: the process is single-threaded and no
\* statement of lines 137-213 or 226-230 blocks for ever (the request has a
\* timeout, the sleeps are finite), so a call that can take a step takes one.
ExecStep ==
    \/ ExStart
    \/ ExExhausted
    \/ ExRequest(MaxWaitsExec)
    \/ ExSaved
    \/ ExSleep
    \/ SaveOpen
    \/ SaveWrite
    \/ SaveClose

\* The executor on its own, where a call that has begun keeps running and
\* at most MaxWaitsExec responses of one call are rate-limit responses.
SpecExecLive == ExecInit /\ [][ExecNext]_vars /\ WF_vars(ExecStep)

(***************************************************************************)
(* Helpers of the run.                                                     *)
(***************************************************************************)
Range(q) == {q[i] : i \in DOMAIN q}

\* The strictly ascending sequences of at most n elements of S.
RECURSIVE AscSeqs(_, _)
AscSeqs(S, n) ==
    IF n = 0 \/ S = {} THEN {<<>>}
    ELSE {<<>>} \cup
         UNION {{<<x>> \o t : t \in AscSeqs({y \in S : y > x}, n - 1)} : x \in S}

\* The pages a backend can answer with that lists every comment once, in
\* the order of the sort key: the items are new and ascending.
FreshPages(seen) ==
    AscSeqs({i \in Ids : \A j \in Range(seen) : i > j}, PageLen)

\* Lines 281-290: append the items of a page, skipping the ones already seen.
\* (Faulty variant: nothing is skipped.)
AddPageNoDedupBug(acc, items) == acc \o items

RECURSIVE AddPage(_, _)
AddPage(acc, items) ==
    IF items = <<>> THEN acc
    ELSE AddPage(IF Head(items) \in Range(acc) THEN acc
                 ELSE Append(acc, Head(items)),
                 Tail(items))

\* A call of get_requests_response(num_of_tries = k) by a caller.
CallExecutor(k) ==
    /\ ex_pc' = "call"
    /\ num_of_tries' = k
    /\ num_of_try' = 0
    /\ resp' = "None"
    /\ reqCount' = 0
    /\ waitCount' = 0
    /\ failCount' = 0
    /\ rlCount' = 0
    /\ lastStatus' = "None"

\* The caller has taken the result: the callee's locals are gone.
ForgetExecutor ==
    /\ ex_pc' = "idle"
    /\ num_of_tries' = 0
    /\ num_of_try' = 0
    /\ resp' = "None"
    /\ reqCount' = 0
    /\ waitCount' = 0
    /\ failCount' = 0
    /\ rlCount' = 0
    /\ lastStatus' = "None"

\* The positions of main inside the try block (lines 443-478).
TryPcs == {"loop", "rotate", "rotate_create", "rotate_header", "detail",
           "detail_wait", "write", "flush", "inc", "add", "periodic",
           "periodic_wait"}

\* Where an exception or KeyboardInterrupt raised at position p takes main:
\* inside the try block the except clauses and then finally run; anywhere
\* else it leaves main.
HandlerOf(p) == IF p \in TryPcs THEN "drain_close" ELSE "crashed"

\* An exception of kind f is raised at the current position: every callee
\* frame is unwound.
Raise(f) ==
    /\ pc' = HandlerOf(pc)
    /\ failure' = f
    /\ ckFile' = FileAfterUnwind
    /\ save_pc' = IF save_pc = "write" THEN "cut" ELSE "idle"
    /\ saveBuf' = {}
    /\ page_num' = 0
    /\ ForgetExecutor
    /\ UNCHANGED <<ckExists, durable>>

(***************************************************************************)
(* main of extract-comments.py, up to the try block.                       *)
(***************************************************************************)
Init ==
    /\ variant = "extract-comments"
    /\ pc = "start"
    /\ failure = "none"
    /\ processed_comment_ids = {}
    /\ file_counter = 1
    /\ current_file_comment_count = 0
    /\ comment_ids = <<>>
    /\ comments_to_process = <<>>
    /\ idx = 0
    /\ sinks = <<>>
    /\ fOpen = FALSE
    /\ localOpen = FALSE
    /\ page_size = DEFAULT_PAGE_SIZE
    /\ page_num = 0
    /\ ex_pc = "idle"
    /\ num_of_tries = 0
    /\ num_of_try = 0
    /\ resp = "None"
    /\ save_pc = "idle"
    /\ saveBuf = {}
    /\ ckExists \in BOOLEAN
    /\ ckFile \in (IF ckExists THEN SUBSET Ids ELSE {{}})
    /\ durable = ckFile
    /\ loaded = {}
    /\ fetched = <<>>
    /\ failedIds = {}
    /\ raisedIds = {}
    /\ reqCount = 0
    /\ waitCount = 0
    /\ failCount = 0
    /\ rlCount = 0
    /\ lastStatus = "None"
    /\ listRequests = <<>>
    /\ listBodies = <<>>
    /\ pageItems = <<>>
    /\ printed = {}
    /\ run = 1
    /\ prevIds = {}
    /\ prevClean = FALSE
    /\ createdBy = "none"
    /\ comment_attributes = <<>>
    /\ record = <<>>

\* load_processed_ids (lines 216-223), then the directory scan of lines
\* 419-425, which leaves file_counter at 1: BASE_CSV_FILENAME carries the
\* minute of the start, and no file of that name exists yet.
\* Lines 220-222: the set after load_processed_ids.
\* (Faulty variant: the file is not read.)
LoadedIdsIgnoreFileBug(exists, lines, old) == old

LoadedIds(exists, lines, old) == IF exists THEN lines ELSE old

LoadProcessedIds ==
    /\ pc = "start"
    /\ processed_comment_ids' =
          LoadedIds(ckExists, ckFile, processed_comment_ids)
    /\ loaded' = Persisted
    /\ pc' = "discover"
    /\ UNCHANGED <<failure, file_counter, current_file_comment_count,
                   comment_ids, comments_to_process, idx, sinks, fOpen,
                   localOpen>>
    /\ UNCHANGED <<variant, recVars, createdBy, obsVars, discVars, exVars,
                   saveVars, cntVars,
                   fetched, failedIds, raisedIds, listRequests>>

\* Line 236: the page sizes get_comment_ids accepts.
\* (Faulty variant: the ends of the range are refused.)
PageSizeValidExclusiveBug(n) == MIN_PAGE_SIZE < n /\ n < MAX_PAGE_SIZE

PageSizeValid(n) == MIN_PAGE_SIZE <= n /\ n <= MAX_PAGE_SIZE

\* get_comment_ids, lines 236-253.
DiscStart ==
    /\ pc = "discover"
    /\ IF PageSizeValid(page_size)
         THEN /\ page_num' = 1
              /\ pc' = "disc_call"
         ELSE /\ page_num' = 0
              /\ pc' = "filter"
    /\ comment_ids' = <<>>
    /\ UNCHANGED <<failure, processed_comment_ids, file_counter,
                   current_file_comment_count, comments_to_process, idx,
                   sinks, fOpen, localOpen, page_size>>
    /\ UNCHANGED <<variant, recVars, createdBy, obsVars, exVars, saveVars,
                   histVars, cntVars>>

\* Lines 256-267: the request for page page_num.
DiscRequest ==
    /\ pc = "disc_call"
    /\ pc' = "disc_wait"
    /\ listRequests' = Append(listRequests, page_num)
    /\ CallExecutor(LIST_NUM_OF_TRIES)
    /\ UNCHANGED <<failure, processed_comment_ids, file_counter,
                   current_file_comment_count, comment_ids,
                   comments_to_process, idx, sinks, fOpen, localOpen>>
    /\ pageItems' = <<>>
    /\ UNCHANGED <<variant, recVars, createdBy, discVars, saveVars, loaded,
                   fetched, failedIds,
                   raisedIds, listBodies, printed, run, prevIds, prevClean>>

\* Line 295: the page requested after page n.
\* (Faulty variant: a page number is skipped.)
NextPageNumSkipBug(n) == n + 2

NextPageNum(n) == n + 1

\* Lines 269-299: the response of the page, for a backend whose pages are
\* drawn from the set pages.  The body is one of
\*   "ok"          a listing with its items and the hasNextPage flag,
\*   "undecodable" response.json() raises JSONDecodeError,
\*   "missing_key" "data", "meta" or "hasNextPage" is missing (KeyError),
\*   "bad_item"    an item of "data" has no "id": the KeyError of line 282
\*                 is raised outside the try of lines 273-279.
DiscResponse(pages) ==
    /\ pc = "disc_wait"
    /\ ex_pc = "ret"
    /\ \/ /\ Falsy(resp)
          /\ listBodies' = Append(listBodies, "no_response")
          /\ pc' = "filter"
          /\ page_num' = 0
          /\ ForgetExecutor
          /\ UNCHANGED <<comment_ids, failure, saveVars, pageItems>>
       \/ /\ ~Falsy(resp)
          /\ \E kind \in {"undecodable", "missing_key"} :
                /\ listBodies' = Append(listBodies, kind)
                /\ pc' = "filter"
                /\ page_num' = 0
                /\ ForgetExecutor
                /\ UNCHANGED <<comment_ids, failure, saveVars, pageItems>>
       \/ /\ ~Falsy(resp)
          /\ listBodies' = Append(listBodies, "bad_item")
          /\ Raise("exception")
          /\ UNCHANGED <<comment_ids, pageItems>>
       \/ /\ ~Falsy(resp)
          /\ \E items \in pages, has_next_page \in BOOLEAN :
                /\ has_next_page => page_num < MaxPages
                /\ listBodies' = Append(listBodies, IF has_next_page
                                                     THEN "more" ELSE "last")
                /\ pageItems' = items
                /\ comment_ids' = AddPage(comment_ids, items)
                /\ IF has_next_page
                     THEN /\ page_num' = NextPageNum(page_num)
                          /\ pc' = "disc_call"
                     ELSE /\ page_num' = 0
                          /\ pc' = "filter"
                /\ ForgetExecutor
                /\ UNCHANGED <<failure, saveVars>>
    /\ UNCHANGED <<processed_comment_ids, file_counter,
                   current_file_comment_count, comments_to_process, idx,
                   sinks, fOpen, localOpen, page_size>>
    /\ UNCHANGED <<variant, recVars, createdBy, histVars, printed, run,
                   prevIds, prevClean>>

\* Line 432.
\* (Faulty variants: nothing is filtered out, and the order is reversed.)
ToProcessNoFilterBug(discovered, done) == discovered

ToProcessReversedBug(discovered, done) ==
    LET kept == SelectSeq(discovered, LAMBDA c : c \notin done)
    IN  [i \in 1..Len(kept) |-> kept[Len(kept) + 1 - i]]

ToProcess(discovered, done) == SelectSeq(discovered, LAMBDA c : c \notin done)

\* Lines 428-438: no identifiers, or none left to process ("nothing to
\* do" is printed at line 435), or on to the first file.  The observations
\* of the get_comment_ids call end here.
Filter ==
    /\ pc = "filter"
    /\ IF comment_ids = <<>>
         THEN /\ pc' = "done"
              /\ UNCHANGED <<comments_to_process, printed>>
         ELSE /\ comments_to_process' =
                    ToProcess(comment_ids, processed_comment_ids)
              /\ pc' = IF comments_to_process' = <<>> THEN "done"
                       ELSE "create_first"
              /\ printed' = IF comments_to_process' = <<>>
                              THEN printed \cup {"nothing_to_do"}
                              ELSE printed
    /\ listRequests' = <<>>
    /\ listBodies' = <<>>
    /\ pageItems' = <<>>
    /\ UNCHANGED <<failure, processed_comment_ids, file_counter,
                   current_file_comment_count, comment_ids, idx, sinks,
                   fOpen, localOpen>>
    /\ UNCHANGED <<variant, recVars, createdBy, discVars, exVars, saveVars,
                   cntVars, loaded,
                   fetched, failedIds, raisedIds, run, prevIds, prevClean>>

\* create_new_csv (lines 375-406) called at line 441, in two steps.  First
\* the open of line 380: the file exists and the handle is a local of
\* create_new_csv; an OSError of open leaves main.
CreateFirst ==
    /\ pc = "create_first"
    /\ \/ /\ sinks' = Append(sinks, <<>>)
          /\ localOpen' = TRUE
          /\ pc' = "create_first_header"
          /\ UNCHANGED <<failure, discVars, exVars, saveVars, cntVars>>
       \/ /\ Raise("exception")
          /\ UNCHANGED <<sinks, localOpen, page_size>>
    /\ UNCHANGED <<processed_comment_ids, file_counter,
                   current_file_comment_count, comment_ids,
                   comments_to_process, idx, fOpen>>
    /\ UNCHANGED <<variant, recVars, createdBy, obsVars, histVars>>

\* Then lines 381-406 and the assignment of line 441: the header row is
\* written and the handle becomes f of main, where the try starts at line
\* 443; or writeheader raises, which leaves create_new_csv and main with
\* the handle never closed.
CreateFirstHeader ==
    /\ pc = "create_first_header"
    /\ \/ /\ fOpen' = TRUE
          /\ localOpen' = FALSE
          /\ idx' = 1
          /\ pc' = "loop"
          /\ UNCHANGED <<failure, discVars, exVars, saveVars, cntVars>>
       \/ /\ Raise("exception")
          /\ UNCHANGED <<fOpen, localOpen, idx, page_size>>
    /\ UNCHANGED <<processed_comment_ids, file_counter,
                   current_file_comment_count, comment_ids,
                   comments_to_process, sinks>>
    /\ UNCHANGED <<variant, recVars, createdBy, obsVars, histVars>>

(***************************************************************************)
(* main of extract-comments.py: the try block (lines 443-478).             *)
(***************************************************************************)
CurId == comments_to_process[idx]

\* Line 454: the rotation threshold.
\* (Faulty variant: > for >=.)
NeedsRotationOffByOneBug(count) == count > COMMENTS_PER_FILE

NeedsRotation(count) == count >= COMMENTS_PER_FILE

\* Lines 444-454: the head of the for loop, the guard of line 445 and the
\* test of the rotation threshold.
LoopHead ==
    /\ pc = "loop"
    /\ IF idx > Len(comments_to_process)
         THEN /\ pc' = "drain_close"
              /\ UNCHANGED idx
         ELSE IF CurId \in processed_comment_ids
         THEN /\ pc' = "loop"
              /\ idx' = idx + 1
         ELSE /\ pc' = IF NeedsRotation(current_file_comment_count)
                         THEN "rotate" ELSE "detail"
              /\ UNCHANGED idx
    /\ UNCHANGED <<failure, processed_comment_ids, file_counter,
                   current_file_comment_count, comment_ids,
                   comments_to_process, sinks, fOpen, localOpen>>
    /\ UNCHANGED <<variant, recVars, createdBy, obsVars, discVars, exVars,
                   saveVars, histVars,
                   cntVars>>

\* Lines 456-461: close the full file, count the next one.
Rotate ==
    /\ pc = "rotate"
    /\ fOpen' = FALSE
    /\ file_counter' = file_counter + 1
    /\ current_file_comment_count' = 0
    /\ pc' = "rotate_create"
    /\ UNCHANGED <<failure, processed_comment_ids, comment_ids,
                   comments_to_process, idx, sinks, localOpen>>
    /\ UNCHANGED <<variant, recVars, createdBy, obsVars, discVars, exVars,
                   saveVars, histVars,
                   cntVars>>

\* Line 464: create_new_csv for the next file, in the same two steps: the
\* open of line 380, or its OSError.
RotateCreate ==
    /\ pc = "rotate_create"
    /\ \/ /\ sinks' = Append(sinks, <<>>)
          /\ localOpen' = TRUE
          /\ pc' = "rotate_header"
          /\ UNCHANGED <<failure, discVars, exVars, saveVars, cntVars>>
       \/ /\ Raise("exception")
          /\ UNCHANGED <<sinks, localOpen, page_size>>
    /\ UNCHANGED <<processed_comment_ids, file_counter,
                   current_file_comment_count, comment_ids,
                   comments_to_process, idx, fOpen>>
    /\ UNCHANGED <<variant, recVars, createdBy, obsVars, histVars>>

\* The header row and the assignment of line 464; when writeheader raises,
\* f of main still is the handle closed at line 456.
RotateHeader ==
    /\ pc = "rotate_header"
    /\ \/ /\ fOpen' = TRUE
          /\ localOpen' = FALSE
          /\ pc' = "detail"
          /\ UNCHANGED <<failure, discVars, exVars, saveVars, cntVars>>
       \/ /\ Raise("exception")
          /\ UNCHANGED <<fOpen, localOpen, page_size>>
    /\ UNCHANGED <<processed_comment_ids, file_counter,
                   current_file_comment_count, comment_ids,
                   comments_to_process, idx, sinks>>
    /\ UNCHANGED <<variant, recVars, createdBy, obsVars, histVars>>

\* Line 467 and get_comment_detail_data, lines 305-319.
DetailRequest ==
    /\ pc = "detail"
    /\ pc' = "detail_wait"
    /\ fetched' = Append(fetched, CurId)
    /\ CallExecutor(DETAIL_NUM_OF_TRIES)
    /\ UNCHANGED <<failure, processed_comment_ids, file_counter,
                   current_file_comment_count, comment_ids,
                   comments_to_process, idx, sinks, fOpen, localOpen>>
    /\ UNCHANGED <<variant, recVars, createdBy, obsVars, discVars, saveVars,
                   loaded, failedIds,
                   raisedIds, listRequests>>

\* What main does with the value of get_comment_detail_data (line 469):
\* a record goes on to be written, None ends the iteration.
\* (Faulty variants: line 469 missing, with writerow(None) raising, and
\* with the row of a failed fetch written.)
AfterDetailRaiseBug(got) == IF got THEN "write" ELSE "raise"

AfterDetailWriteBug(got) == "write"

AfterDetail(got) == IF got THEN "write" ELSE "next"

\* get_comment_detail_data, lines 321-372, and line 469.  The body is one of
\*   "ok"          a detail payload: the record is built,
\*   "undecodable" response.json() raises JSONDecodeError: None,
\*   "missing_key" "data" or "attributes" is missing (KeyError): None,
\*   "bad_shape"   "data" or "attributes" is null or no object: the TypeError
\*                 or AttributeError is not caught in the function.
DetailResponse ==
    /\ pc = "detail_wait"
    /\ ex_pc = "ret"
    /\ \E body \in {"ok", "undecodable", "missing_key", "bad_shape"} :
          LET got == ~Falsy(resp) /\ body = "ok"
              uncaught == ~Falsy(resp) /\ body = "bad_shape"
              raises == uncaught \/ AfterDetail(got) = "raise"
          IN  /\ failedIds' = IF got \/ uncaught THEN failedIds
                              ELSE failedIds \cup {CurId}
              /\ raisedIds' = IF uncaught THEN raisedIds \cup {CurId}
                              ELSE raisedIds
              /\ IF raises
                   THEN /\ Raise("exception")
                        /\ UNCHANGED idx
                   ELSE /\ pc' = IF AfterDetail(got) = "write"
                                   THEN "write" ELSE "loop"
                        /\ idx' = IF AfterDetail(got) = "write"
                                    THEN idx ELSE idx + 1
                        /\ ForgetExecutor
                        /\ UNCHANGED <<failure, saveVars, page_num>>
    /\ UNCHANGED <<processed_comment_ids, file_counter,
                   current_file_comment_count, comment_ids,
                   comments_to_process, sinks, fOpen, localOpen, page_size>>
    /\ UNCHANGED <<variant, recVars, createdBy, obsVars, loaded, fetched,
                   listRequests>>

\* Line 470: writer.writerow puts the record in the current file, or the
\* write fails.
WriteRow ==
    /\ pc = "write"
    /\ \/ /\ sinks' = [sinks EXCEPT ![Len(sinks)] = Append(@, CurId)]
          /\ pc' = "flush"
          /\ UNCHANGED <<failure, discVars, exVars, saveVars, cntVars>>
       \/ /\ Raise("exception")
          /\ UNCHANGED <<sinks, page_size>>
    /\ UNCHANGED <<processed_comment_ids, file_counter,
                   current_file_comment_count, comment_ids,
                   comments_to_process, idx, fOpen, localOpen>>
    /\ UNCHANGED <<variant, recVars, createdBy, obsVars, histVars>>

\* Line 471: f.flush(), or its OSError.
FlushRow ==
    /\ pc = "flush"
    /\ \/ /\ pc' = "inc"
          /\ UNCHANGED <<failure, discVars, exVars, saveVars, cntVars>>
       \/ /\ Raise("exception")
          /\ UNCHANGED page_size
    /\ UNCHANGED <<processed_comment_ids, file_counter,
                   current_file_comment_count, comment_ids,
                   comments_to_process, idx, sinks, fOpen, localOpen>>
    /\ UNCHANGED <<variant, recVars, createdBy, obsVars, histVars>>

\* Line 472.
CountRow ==
    /\ pc = "inc"
    /\ current_file_comment_count' = current_file_comment_count + 1
    /\ pc' = "add"
    /\ UNCHANGED <<failure, processed_comment_ids, file_counter, comment_ids,
                   comments_to_process, idx, sinks, fOpen, localOpen>>
    /\ UNCHANGED <<variant, recVars, createdBy, obsVars, discVars, exVars,
                   saveVars, histVars,
                   cntVars>>

\* Line 473.
AddProcessed ==
    /\ pc = "add"
    /\ processed_comment_ids' = processed_comment_ids \cup {CurId}
    /\ pc' = "periodic"
    /\ UNCHANGED <<failure, file_counter, current_file_comment_count,
                   comment_ids, comments_to_process, idx, sinks, fOpen,
                   localOpen>>
    /\ UNCHANGED <<variant, recVars, createdBy, obsVars, discVars, exVars,
                   saveVars, histVars,
                   cntVars>>

\* Line 476: whether a periodic save is due when the set holds n identifiers
\* (the identifiers loaded at startup are counted too).
\* (Faulty variant: a longer period.)
SaveDueLongerPeriodBug(n) == n % (SAVE_EVERY + 2) = 0

SaveDue(n) == n % SAVE_EVERY = 0

\* Lines 476-477: the periodic save.
Periodic ==
    /\ pc = "periodic"
    /\ IF SaveDue(Cardinality(processed_comment_ids))
         THEN /\ save_pc' = "call"
              /\ pc' = "periodic_wait"
              /\ UNCHANGED idx
         ELSE /\ pc' = "loop"
              /\ idx' = idx + 1
              /\ UNCHANGED save_pc
    /\ UNCHANGED <<failure, processed_comment_ids, file_counter,
                   current_file_comment_count, comment_ids,
                   comments_to_process, sinks, fOpen, localOpen,
                   saveBuf, ckExists, ckFile, durable>>
    /\ UNCHANGED <<variant, recVars, createdBy, obsVars, discVars, exVars,
                   histVars, cntVars>>

\* Line 477 has returned (line 478 prints), or its open failed.
PeriodicSaved ==
    /\ pc = "periodic_wait"
    /\ \/ /\ save_pc = "ret"
          /\ save_pc' = "idle"
          /\ pc' = "loop"
          /\ idx' = idx + 1
          /\ UNCHANGED <<failure, discVars, exVars, cntVars,
                         saveBuf, ckExists, ckFile, durable>>
       \/ /\ save_pc = "call"
          /\ Raise("exception")
          /\ UNCHANGED <<idx, page_size>>
    /\ UNCHANGED <<processed_comment_ids, file_counter,
                   current_file_comment_count, comment_ids,
                   comments_to_process, sinks, fOpen, localOpen>>
    /\ UNCHANGED <<variant, recVars, createdBy, obsVars, histVars>>

(***************************************************************************)
(* The finally clause (lines 484-494).                                     *)
(***************************************************************************)
\* What the finally clause does after closing the file: save the set.
AfterClose == "drain_save"

\* Lines 486-487, and the call of line 490.
DrainClose ==
    /\ pc = "drain_close"
    /\ fOpen' = FALSE
    /\ pc' = AfterClose
    /\ save_pc' = IF AfterClose = "drain_save" THEN "call" ELSE save_pc
    /\ UNCHANGED <<failure, processed_comment_ids, file_counter,
                   current_file_comment_count, comment_ids,
                   comments_to_process, idx, sinks, localOpen,
                   saveBuf, ckExists, ckFile, durable>>
    /\ UNCHANGED <<variant, recVars, createdBy, obsVars, discVars, exVars,
                   histVars, cntVars>>

\* Line 490 has returned; lines 492-494 print the summary.
DrainSaved ==
    /\ pc = "drain_save"
    /\ save_pc = "ret"
    /\ save_pc' = "idle"
    /\ pc' = "done"
    /\ printed' = printed \cup {"summary"}
    /\ UNCHANGED <<failure, processed_comment_ids, file_counter,
                   current_file_comment_count, comment_ids,
                   comments_to_process, idx, sinks, fOpen, localOpen,
                   saveBuf, ckExists, ckFile, durable>>
    /\ UNCHANGED <<variant, recVars, createdBy, discVars, exVars, histVars,
                   cntVars,
                   listBodies, pageItems, run, prevIds, prevClean>>

(***************************************************************************)
(* The operator: Ctrl-C raises KeyboardInterrupt in the main thread at     *)
(* whatever statement is running.                                          *)
(***************************************************************************)
Interrupt ==
    /\ pc \notin {"done", "crashed", "harness"}
    /\ Raise("interrupt")
    /\ UNCHANGED <<processed_comment_ids, file_counter,
                   current_file_comment_count, comment_ids,
                   comments_to_process, idx, sinks, fOpen, localOpen,
                   page_size>>
    /\ UNCHANGED <<variant, recVars, createdBy, obsVars, histVars>>

Next ==
    \/ LoadProcessedIds
    \/ DiscStart
    \/ DiscRequest
    \/ DiscResponse(FreshPages(comment_ids))
    \/ Filter
    \/ CreateFirst
    \/ CreateFirstHeader
    \/ LoopHead
    \/ Rotate
    \/ RotateCreate
    \/ RotateHeader
    \/ DetailRequest
    \/ DetailResponse
    \/ WriteRow
    \/ FlushRow
    \/ CountRow
    \/ AddProcessed
    \/ Periodic
    \/ PeriodicSaved
    \/ DrainClose
    \/ DrainSaved
    \/ Interrupt
    \/ ExStart
    \/ ExExhausted
    \/ ExRequest(MaxWaitsRun)
    \/ ExSaved
    \/ ExSleep
    \/ SaveOpen
    \/ SaveWrite
    \/ SaveClose

Spec == Init /\ [][Next]_vars

(***************************************************************************)
(* get_comment_ids on its own: main at line 427, after load_processed_ids, *)
(* calling get_comment_ids with any page size, against a backend that may  *)
(* repeat identifiers and list them in any order.                          *)
(***************************************************************************)
\* Page sizes a caller can pass: around both ends of the accepted range.
PageSizes == {0, MIN_PAGE_SIZE - 1, MIN_PAGE_SIZE, MAX_PAGE_SIZE,
              MAX_PAGE_SIZE + 1}

\* Every page of at most PageLen items, repeated identifiers included.
AnyPages == UNION {[1..n -> Ids] : n \in 0..PageLen}

\* The checkpoint file is absent, empty, or holds one identifier.
DiscInit ==
    /\ variant = "extract-comments"
    /\ pc = "discover"
    /\ failure = "none"
    /\ ckExists \in BOOLEAN
    /\ ckFile \in (IF ckExists THEN {{}, {1}} ELSE {{}})
    /\ processed_comment_ids = ckFile
    /\ file_counter = 1
    /\ current_file_comment_count = 0
    /\ comment_ids = <<>>
    /\ comments_to_process = <<>>
    /\ idx = 0
    /\ sinks = <<>>
    /\ fOpen = FALSE
    /\ localOpen = FALSE
    /\ page_size \in PageSizes
    /\ page_num = 0
    /\ ex_pc = "idle"
    /\ num_of_tries = 0
    /\ num_of_try = 0
    /\ resp = "None"
    /\ save_pc = "idle"
    /\ saveBuf = {}
    /\ durable = ckFile
    /\ loaded = ckFile
    /\ fetched = <<>>
    /\ failedIds = {}
    /\ raisedIds = {}
    /\ reqCount = 0
    /\ waitCount = 0
    /\ failCount = 0
    /\ rlCount = 0
    /\ lastStatus = "None"
    /\ listRequests = <<>>
    /\ listBodies = <<>>
    /\ pageItems = <<>>
    /\ printed = {}
    /\ run = 1
    /\ prevIds = {}
    /\ prevClean = FALSE
    /\ createdBy = "none"
    /\ comment_attributes = <<>>
    /\ record = <<>>

DiscNext ==
    \/ DiscStart
    \/ DiscRequest
    \/ DiscResponse(AnyPages)
    \/ Interrupt
    \/ ExStart
    \/ ExExhausted
    \/ ExRequest(MaxWaitsRun)
    \/ ExSaved
    \/ ExSleep
    \/ SaveOpen
    \/ SaveWrite
    \/ SaveClose

SpecDisc == DiscInit /\ [][DiscNext]_vars

(***************************************************************************)
(* The loop of main on its own: main at line 441, after a discovery that   *)
(* returned the identifiers 1..n with no checkpoint file on disk.          *)
(***************************************************************************)
FetchInit ==
    /\ variant = "extract-comments"
    /\ pc = "create_first"
    /\ failure = "none"
    /\ processed_comment_ids = {}
    /\ file_counter = 1
    /\ current_file_comment_count = 0
    /\ \E n \in 1..MaxFetch : comment_ids = [i \in 1..n |-> i]
    /\ comments_to_process = comment_ids
    /\ idx = 0
    /\ sinks = <<>>
    /\ fOpen = FALSE
    /\ localOpen = FALSE
    /\ page_size = DEFAULT_PAGE_SIZE
    /\ page_num = 0
    /\ ex_pc = "idle"
    /\ num_of_tries = 0
    /\ num_of_try = 0
    /\ resp = "None"
    /\ save_pc = "idle"
    /\ saveBuf = {}
    /\ ckExists = FALSE
    /\ ckFile = {}
    /\ durable = {}
    /\ loaded = {}
    /\ fetched = <<>>
    /\ failedIds = {}
    /\ raisedIds = {}
    /\ reqCount = 0
    /\ waitCount = 0
    /\ failCount = 0
    /\ rlCount = 0
    /\ lastStatus = "None"
    /\ listRequests = <<>>
    /\ listBodies = <<>>
    /\ pageItems = <<>>
    /\ printed = {}
    /\ run = 1
    /\ prevIds = {}
    /\ prevClean = FALSE
    /\ createdBy = "none"
    /\ comment_attributes = <<>>
    /\ record = <<>>

FetchNext ==
    \/ CreateFirst
    \/ CreateFirstHeader
    \/ LoopHead
    \/ Rotate
    \/ RotateCreate
    \/ RotateHeader
    \/ DetailRequest
    \/ DetailResponse
    \/ WriteRow
    \/ FlushRow
    \/ CountRow
    \/ AddProcessed
    \/ Periodic
    \/ PeriodicSaved
    \/ DrainClose
    \/ DrainSaved
    \/ Interrupt
    \/ ExStart
    \/ ExExhausted
    \/ ExRequest(MaxWaitsRun)
    \/ ExSaved
    \/ ExSleep
    \/ SaveOpen
    \/ SaveWrite
    \/ SaveClose

SpecFetch == FetchInit /\ [][FetchNext]_vars

(***************************************************************************)
(* Two runs of extract-comments.py one after the other, with the same      *)
(* filter and no new upstream data: the backend lists its identifiers in   *)
(* any order, once each, and lists to the second run only identifiers the  *)
(* first run discovered.  The checkpoint file is what connects the runs.   *)
(***************************************************************************)
TwoRunIds == 1..MaxIdsTwoRuns

\* The sequences of at most n distinct elements of S, in any order.
RECURSIVE DistinctSeqs(_, _)
DistinctSeqs(S, n) ==
    IF n = 0 \/ S = {} THEN {<<>>}
    ELSE {<<>>} \cup
         UNION {{<<x>> \o t : t \in DistinctSeqs(S \ {x}, n - 1)} : x \in S}

\* The pages the backend can answer with after the identifiers seen.
UpstreamPages(seen) ==
    DistinctSeqs((IF run = 1 THEN TwoRunIds ELSE prevIds) \ Range(seen),
                 PageLen)

TwoRunInit ==
    /\ variant = "extract-comments"
    /\ pc = "start"
    /\ failure = "none"
    /\ processed_comment_ids = {}
    /\ file_counter = 1
    /\ current_file_comment_count = 0
    /\ comment_ids = <<>>
    /\ comments_to_process = <<>>
    /\ idx = 0
    /\ sinks = <<>>
    /\ fOpen = FALSE
    /\ localOpen = FALSE
    /\ page_size = DEFAULT_PAGE_SIZE
    /\ page_num = 0
    /\ ex_pc = "idle"
    /\ num_of_tries = 0
    /\ num_of_try = 0
    /\ resp = "None"
    /\ save_pc = "idle"
    /\ saveBuf = {}
    /\ ckExists \in BOOLEAN
    /\ ckFile \in (IF ckExists THEN SUBSET TwoRunIds ELSE {{}})
    /\ durable = ckFile
    /\ loaded = {}
    /\ fetched = <<>>
    /\ failedIds = {}
    /\ raisedIds = {}
    /\ reqCount = 0
    /\ waitCount = 0
    /\ failCount = 0
    /\ rlCount = 0
    /\ lastStatus = "None"
    /\ listRequests = <<>>
    /\ listBodies = <<>>
    /\ pageItems = <<>>
    /\ printed = {}
    /\ run = 1
    /\ prevIds = {}
    /\ prevClean = FALSE
    /\ createdBy = "none"
    /\ comment_attributes = <<>>
    /\ record = <<>>

\* The first run has ended (main returned, or an exception left it) and the
\* script is started again: a new process, with the globals of lines 57-63
\* and the files of the run before on disk.
Restart ==
    /\ run = 1
    /\ pc \in {"done", "crashed"}
    /\ run' = 2
    /\ prevIds' = Range(comment_ids)
    /\ prevClean' = (pc = "done" /\ failure = "none" /\ failedIds = {})
    /\ pc' = "start"
    /\ failure' = "none"
    /\ processed_comment_ids' = {}
    /\ file_counter' = 1
    /\ current_file_comment_count' = 0
    /\ comment_ids' = <<>>
    /\ comments_to_process' = <<>>
    /\ idx' = 0
    /\ sinks' = <<>>
    /\ fOpen' = FALSE
    /\ localOpen' = FALSE
    /\ save_pc' = "idle"
    /\ saveBuf' = {}
    /\ durable' = ckFile
    /\ loaded' = {}
    /\ fetched' = <<>>
    /\ failedIds' = {}
    /\ raisedIds' = {}
    /\ listRequests' = <<>>
    /\ listBodies' = <<>>
    /\ pageItems' = <<>>
    /\ printed' = {}
    /\ createdBy' = "none"
    /\ UNCHANGED <<variant, recVars, discVars, exVars, cntVars, ckExists,
                   ckFile>>

TwoRunNext ==
    \/ Restart
    \/ LoadProcessedIds
    \/ DiscStart
    \/ DiscRequest
    \/ DiscResponse(UpstreamPages(comment_ids))
    \/ Filter
    \/ CreateFirst
    \/ CreateFirstHeader
    \/ LoopHead
    \/ Rotate
    \/ RotateCreate
    \/ RotateHeader
    \/ DetailRequest
    \/ DetailResponse
    \/ WriteRow
    \/ FlushRow
    \/ CountRow
    \/ AddProcessed
    \/ Periodic
    \/ PeriodicSaved
    \/ DrainClose
    \/ DrainSaved
    \/ Interrupt
    \/ ExStart
    \/ ExExhausted
    \/ ExRequest(MaxWaitsRun)
    \/ ExSaved
    \/ ExSleep
    \/ SaveOpen
    \/ SaveWrite
    \/ SaveClose

SpecTwoRuns == TwoRunInit /\ [][TwoRunNext]_vars

(***************************************************************************)
(* The record of one detail payload: lines 325-372 on their own.  A Python *)
(* value is a record of its type and its text, a str being the sequence of *)
(* its characters.                                                         *)
(***************************************************************************)
PyNone  == [t |-> "NoneType", v |-> <<>>]
PyTrue  == [t |-> "bool", v |-> <<"True">>]
PyFalse == [t |-> "bool", v |-> <<"False">>]
PyStr(cs) == [t |-> "str", v |-> cs]

\* bool(x): None, False and the empty str are falsy.
Truthy(x) ==
    CASE x.t = "NoneType" -> FALSE
      [] x.t = "bool" -> x = PyTrue
      [] OTHER -> x.v # <<>>

\* x or y.
PyOr(x, y) == IF Truthy(x) THEN x ELSE y

\* The characters of str(x).
Str(x) ==
    CASE x.t = "NoneType" -> <<"N", "o", "n", "e">>
      [] x.t = "bool" -> IF x = PyTrue THEN <<"T", "r", "u", "e">>
                         ELSE <<"F", "a", "l", "s", "e">>
      [] OTHER -> x.v

\* cs.partition(sep)[0] for a separator of one character: what precedes its
\* first occurrence, or all of cs when it does not occur.
RECURSIVE PartitionHead(_, _)
PartitionHead(cs, sep) ==
    IF cs = <<>> \/ Head(cs) = sep THEN <<>>
    ELSE <<Head(cs)>> \o PartitionHead(Tail(cs), sep)

\* d.get(k, default).
DictGet(d, k, default) == IF k \in DOMAIN d THEN d[k] ELSE default

\* The three ways lines 327-343 read a key.
TextField(d, k) == PyOr(DictGet(d, k, PyStr(<<>>)), PyStr(<<>>))
DateField(d, k) == PyStr(PartitionHead(Str(DictGet(d, k, PyStr(<<>>))), "T"))
RawField(d, k)  == DictGet(d, k, PyStr(<<>>))

\* The upstream key read into each optional field of the record.
KeyOf ==
    [tracking_number        |-> "trackingNbr",
     country                |-> "country",
     state_or_province      |-> "stateProvinceRegion",
     zip_code               |-> "zip",
     document_category      |-> "category",
     document_subtype       |-> "subtype",
     received_date          |-> "receiveDate",
     title                  |-> "title",
     object_id              |-> "objectId",
     agency_id              |-> "agencyId",
     docket_id              |-> "docketId",
     open_for_comment       |-> "openForComment",
     comment_on_document_id |-> "commentOnDocumentId",
     withdrawn              |-> "withdrawn",
     restrict_reason        |-> "restrictReason",
     restrict_reason_type   |-> "restrictReasonType",
     comment                |-> "comment"]

OptionalFields == DOMAIN KeyOf
UpstreamKeys == {KeyOf[f] : f \in OptionalFields}

\* Lines 352-372: the dict returned for comment comment_id with attributes d.
CommentRecord(comment_id, d) ==
    [f \in OptionalFields \cup {"comment_id", "url"} |->
        CASE f = "comment_id" -> PyStr(<<comment_id>>)
          [] f = "url" -> PyStr(<<"API_COMMENTS_URL", "/", comment_id>>)
          [] f = "received_date" -> DateField(d, KeyOf[f])
          [] f \in {"open_for_comment", "withdrawn"} -> RawField(d, KeyOf[f])
          [] OTHER -> TextField(d, KeyOf[f])]

\* The payloads: every key holds the text of a timestamp, except at most
\* MaxOddFields keys, each of which is absent or holds null, the empty text,
\* a text without "T", true or false.
PlainText == PyStr(<<"d", "T", "h">>)
Absent == [t |-> "absent", v |-> <<>>]
OddValues == {Absent, PyNone, PyStr(<<>>), PyStr(<<"d">>), PyTrue, PyFalse}

DictOf(D, o) ==
    [k \in UpstreamKeys \ {j \in D : o[j] = Absent} |->
        IF k \in D THEN o[k] ELSE PlainText]

\* The sets of keys that do not hold the plain text.
OddKeySets == {E \in SUBSET UpstreamKeys : Cardinality(E) <= MaxOddFields}

RecordInit ==
    /\ variant = "extract-comments"
    /\ pc = "build"
    /\ failure = "none"
    /\ processed_comment_ids = {}
    /\ file_counter = 1
    /\ current_file_comment_count = 0
    /\ comment_ids = <<1>>
    /\ comments_to_process = <<1>>
    /\ idx = 1
    /\ sinks = <<>>
    /\ fOpen = FALSE
    /\ localOpen = FALSE
    /\ page_size = DEFAULT_PAGE_SIZE
    /\ page_num = 0
    /\ ex_pc = "idle"
    /\ num_of_tries = 0
    /\ num_of_try = 0
    /\ resp = "None"
    /\ save_pc = "idle"
    /\ saveBuf = {}
    /\ ckExists = FALSE
    /\ ckFile = {}
    /\ durable = {}
    /\ loaded = {}
    /\ fetched = <<>>
    /\ failedIds = {}
    /\ raisedIds = {}
    /\ reqCount = 0
    /\ waitCount = 0
    /\ failCount = 0
    /\ rlCount = 0
    /\ lastStatus = "None"
    /\ listRequests = <<>>
    /\ listBodies = <<>>
    /\ pageItems = <<>>
    /\ printed = {}
    /\ run = 1
    /\ prevIds = {}
    /\ prevClean = FALSE
    /\ createdBy = "none"
    /\ \E D \in OddKeySets :
          \E o \in [D -> OddValues] : comment_attributes = DictOf(D, o)
    /\ record = <<>>

\* Lines 327-372: the fields are read and the dict is returned.
BuildRecord ==
    /\ pc = "build"
    /\ record' = CommentRecord(CurId, comment_attributes)
    /\ pc' = "built"
    /\ UNCHANGED <<failure, processed_comment_ids, file_counter,
                   current_file_comment_count, comment_ids,
                   comments_to_process, idx, sinks, fOpen, localOpen>>
    /\ UNCHANGED <<variant, comment_attributes, createdBy, obsVars, discVars,
                   exVars, saveVars, histVars, cntVars>>

RecordNext == BuildRecord

SpecRecord == RecordInit /\ [][RecordNext]_vars

(***************************************************************************)
(* regulations_fda_scraping.py: the script without a checkpoint.  It has   *)
(* no try block in main, get_comment_ids and get_comment_detail_data do    *)
(* not test the response before decoding it, the identifiers are a set,    *)
(* and the one output file is held by a with-block.                        *)
(***************************************************************************)
\* What the checkpointed script alone uses.
ckptVars == <<processed_comment_ids, file_counter,
              current_file_comment_count, localOpen>>

\* The orders in which a set built in the order q can be iterated.
Perms(q) == {p \in DistinctSeqs(Range(q), Len(q)) : Len(p) = Len(q)}

\* The pages of a backend that lists every comment once, for this script.
PlainPages(seen) ==
    AscSeqs({i \in 1..MaxIdsPlain : \A j \in Range(seen) : i > j}, PageLen)

PlainInit ==
    /\ variant = "regulations_fda_scraping"
    /\ pc = "plain_discover"
    /\ failure = "none"
    /\ processed_comment_ids = {}
    /\ file_counter = 1
    /\ current_file_comment_count = 0
    /\ comment_ids = <<>>
    /\ comments_to_process = <<>>
    /\ idx = 0
    /\ sinks = <<>>
    /\ fOpen = FALSE
    /\ localOpen = FALSE
    /\ page_size = DEFAULT_PAGE_SIZE
    /\ page_num = 0
    /\ ex_pc = "idle"
    /\ num_of_tries = 0
    /\ num_of_try = 0
    /\ resp = "None"
    /\ save_pc = "idle"
    /\ saveBuf = {}
    /\ ckExists = FALSE
    /\ ckFile = {}
    /\ durable = {}
    /\ loaded = {}
    /\ fetched = <<>>
    /\ failedIds = {}
    /\ raisedIds = {}
    /\ reqCount = 0
    /\ waitCount = 0
    /\ failCount = 0
    /\ rlCount = 0
    /\ lastStatus = "None"
    /\ listRequests = <<>>
    /\ listBodies = <<>>
    /\ pageItems = <<>>
    /\ printed = {}
    /\ run = 1
    /\ prevIds = {}
    /\ prevClean = FALSE
    /\ createdBy = "none"
    /\ comment_attributes = <<>>
    /\ record = <<>>

\* main, lines 344-347, and get_comment_ids, lines 215-231: the range check
\* (None for a page_size out of range), comment_ids = set(), page_num = 1.
\* None and the empty set are both the empty sequence here: line 348 tests
\* `not comment_ids`, which is true of both.
PlainDiscStart ==
    /\ pc = "plain_discover"
    /\ IF PageSizeValid(page_size)
         THEN /\ page_num' = 1
              /\ pc' = "plain_list_call"
         ELSE /\ page_num' = 0
              /\ pc' = "plain_check"
    /\ comment_ids' = <<>>
    /\ UNCHANGED <<failure, comments_to_process, idx, sinks, fOpen,
                   page_size>>
    /\ UNCHANGED <<variant, ckptVars, recVars, createdBy, obsVars, exVars,
                   saveVars, histVars, cntVars>>

\* Lines 233-245: the request for page page_num.
PlainDiscRequest ==
    /\ pc = "plain_list_call"
    /\ pc' = "plain_list_wait"
    /\ listRequests' = Append(listRequests, page_num)
    /\ pageItems' = <<>>
    /\ CallExecutor(PLAIN_NUM_OF_TRIES)
    /\ UNCHANGED <<failure, comment_ids, comments_to_process, idx, sinks,
                   fOpen>>
    /\ UNCHANGED <<variant, ckptVars, recVars, createdBy, discVars, saveVars,
                   loaded, fetched, failedIds, raisedIds, listBodies,
                   printed, run, prevIds, prevClean>>

\* Lines 246-269: the answer of the page.  response.json() is called on
\* whatever the executor returned: on None it raises AttributeError, which
\* nothing catches; on a response object the body is one of
\*   an ordinary listing with its items and the hasNextPage flag,
\*   "undecodable" JSONDecodeError: return None (line 252),
\*   "missing_key" "data", "meta" or "hasNextPage" is missing: return None,
\*   "bad_item"    an item of "data" has no "id": the KeyError of line 255
\*                 is raised outside the try of lines 246-252.
PlainDiscResponse(pages) ==
    /\ pc = "plain_list_wait"
    /\ ex_pc = "ret"
    /\ \/ /\ resp = "None"
          /\ listBodies' = Append(listBodies, "no_response")
          /\ Raise("exception")
          /\ UNCHANGED <<comment_ids, pageItems>>
       \/ /\ resp # "None"
          /\ \E kind \in {"undecodable", "missing_key"} :
                /\ listBodies' = Append(listBodies, kind)
                /\ comment_ids' = <<>>
                /\ pc' = "plain_check"
                /\ page_num' = 0
                /\ ForgetExecutor
                /\ UNCHANGED <<failure, saveVars, pageItems>>
       \/ /\ resp # "None"
          /\ listBodies' = Append(listBodies, "bad_item")
          /\ Raise("exception")
          /\ UNCHANGED <<comment_ids, pageItems>>
       \/ /\ resp # "None"
          /\ \E items \in pages, has_next_page \in BOOLEAN :
                /\ has_next_page => page_num < MaxPages
                /\ listBodies' = Append(listBodies, IF has_next_page
                                                     THEN "more" ELSE "last")
                /\ pageItems' = items
                /\ comment_ids' = AddPage(comment_ids, items)
                /\ IF has_next_page
                     THEN /\ page_num' = NextPageNum(page_num)
                          /\ pc' = "plain_list_call"
                     ELSE /\ page_num' = 0
                          /\ pc' = "plain_check"
                /\ ForgetExecutor
                /\ UNCHANGED <<failure, saveVars>>
    /\ UNCHANGED <<comments_to_process, idx, sinks, fOpen, page_size>>
    /\ UNCHANGED <<variant, ckptVars, recVars, createdBy, histVars, printed,
                   run, prevIds, prevClean>>

\* Lines 348-351: main returns when get_comment_ids gave None or an empty
\* set; otherwise the loop of line 380 will iterate the set in some order.
PlainCheck ==
    /\ pc = "plain_check"
    /\ IF comment_ids = <<>>
         THEN /\ pc' = "done"
              /\ UNCHANGED comments_to_process
         ELSE /\ pc' = "plain_open"
              /\ \E q \in Perms(comment_ids) : comments_to_process' = q
    /\ UNCHANGED <<failure, comment_ids, idx, sinks, fOpen>>
    /\ UNCHANGED <<variant, ckptVars, recVars, createdBy, obsVars, discVars,
                   exVars, saveVars, histVars, cntVars>>

\* Line 353: with open(OUTPUT_CSV_FILE, "wt") as f, or its OSError.
PlainOpen ==
    /\ pc = "plain_open"
    /\ \/ /\ sinks' = <<<<>>>>
          /\ fOpen' = TRUE
          /\ pc' = "plain_header"
          /\ UNCHANGED <<failure, discVars, exVars, saveVars, cntVars>>
       \/ /\ Raise("exception")
          /\ UNCHANGED <<sinks, fOpen, page_size>>
    /\ UNCHANGED <<comment_ids, comments_to_process, idx>>
    /\ UNCHANGED <<variant, ckptVars, recVars, createdBy, obsVars, histVars>>

\* Lines 354-378: the writer and writer.writeheader(); an exception inside
\* the with-block closes the file on its way out.
PlainHeader ==
    /\ pc = "plain_header"
    /\ \/ /\ pc' = "plain_loop"
          /\ idx' = 1
          /\ UNCHANGED <<failure, fOpen, discVars, exVars, saveVars,
                         cntVars>>
       \/ /\ Raise("exception")
          /\ fOpen' = FALSE
          /\ UNCHANGED <<idx, page_size>>
    /\ UNCHANGED <<comment_ids, comments_to_process, sinks>>
    /\ UNCHANGED <<variant, ckptVars, recVars, createdBy, obsVars, histVars>>

\* Lines 380-385 and get_comment_detail_data up to its request (276-290).
PlainDetailRequest ==
    /\ pc = "plain_loop"
    /\ idx <= Len(comments_to_process)
    /\ pc' = "plain_detail_wait"
    /\ fetched' = Append(fetched, CurId)
    /\ CallExecutor(PLAIN_NUM_OF_TRIES)
    /\ UNCHANGED <<failure, comment_ids, comments_to_process, idx, sinks,
                   fOpen>>
    /\ UNCHANGED <<variant, ckptVars, recVars, createdBy, obsVars, discVars,
                   saveVars, loaded, failedIds, raisedIds, listRequests>>

\* The rest of get_comment_detail_data (292-339) and line 386.
\* response.json() on None raises AttributeError; on a response object the
\* body is "ok" (the record is built), "undecodable" or "missing_key" (None
\* is returned and the identifier is skipped), or "bad_shape" (an exception
\* nothing catches).
PlainDetailResponse ==
    /\ pc = "plain_detail_wait"
    /\ ex_pc = "ret"
    /\ \E body \in {"ok", "undecodable", "missing_key", "bad_shape"} :
          LET uncaught == resp = "None" \/ body = "bad_shape"
              got == ~uncaught /\ body = "ok"
          IN  /\ failedIds' = IF got \/ uncaught THEN failedIds
                              ELSE failedIds \cup {CurId}
              /\ raisedIds' = IF uncaught THEN raisedIds \cup {CurId}
                              ELSE raisedIds
              /\ IF uncaught
                   THEN /\ Raise("exception")
                        /\ fOpen' = FALSE
                        /\ UNCHANGED idx
                   ELSE /\ pc' = IF got THEN "plain_write" ELSE "plain_loop"
                        /\ idx' = IF got THEN idx ELSE idx + 1
                        /\ ForgetExecutor
                        /\ UNCHANGED <<failure, fOpen, saveVars, page_num>>
    /\ UNCHANGED <<comment_ids, comments_to_process, sinks, page_size>>
    /\ UNCHANGED <<variant, ckptVars, recVars, createdBy, obsVars, loaded,
                   fetched, listRequests>>

\* Line 387: writer.writerow, or the write fails.
PlainWriteRow ==
    /\ pc = "plain_write"
    /\ \/ /\ sinks' = [sinks EXCEPT ![Len(sinks)] = Append(@, CurId)]
          /\ idx' = idx + 1
          /\ pc' = "plain_loop"
          /\ UNCHANGED <<failure, fOpen, discVars, exVars, saveVars,
                         cntVars>>
       \/ /\ Raise("exception")
          /\ fOpen' = FALSE
          /\ UNCHANGED <<sinks, idx, page_size>>
    /\ UNCHANGED <<comment_ids, comments_to_process>>
    /\ UNCHANGED <<variant, ckptVars, recVars, createdBy, obsVars, histVars>>

\* Lines 389-391: after the last identifier f.flush(), the with-block
\* closes the file and "Done!" is printed; or the flush fails.
PlainFinish ==
    /\ pc = "plain_loop"
    /\ idx > Len(comments_to_process)
    /\ \/ /\ pc' = "done"
          /\ printed' = printed \cup {"done"}
          /\ UNCHANGED <<failure, discVars, exVars, saveVars, cntVars>>
       \/ /\ Raise("exception")
          /\ UNCHANGED <<printed, page_size>>
    /\ fOpen' = FALSE
    /\ UNCHANGED <<comment_ids, comments_to_process, idx, sinks>>
    /\ UNCHANGED <<variant, ckptVars, recVars, createdBy, histVars,
                   listBodies, pageItems, run, prevIds, prevClean>>

\* Ctrl-C: nothing in this script catches KeyboardInterrupt.
PlainInterrupt ==
    /\ pc \notin {"done", "crashed"}
    /\ Raise("interrupt")
    /\ fOpen' = FALSE
    /\ UNCHANGED <<comment_ids, comments_to_process, idx, sinks, page_size>>
    /\ UNCHANGED <<variant, ckptVars, recVars, createdBy, obsVars, histVars>>

PlainNext ==
    \/ PlainDiscStart
    \/ PlainDiscRequest
    \/ PlainDiscResponse(PlainPages(comment_ids))
    \/ PlainCheck
    \/ PlainOpen
    \/ PlainHeader
    \/ PlainDetailRequest
    \/ PlainDetailResponse
    \/ PlainWriteRow
    \/ PlainFinish
    \/ PlainInterrupt
    \/ ExStart
    \/ ExExhausted
    \/ ExRequest(MaxWaitsRun)
    \/ ExSleep

SpecPlain == PlainInit /\ [][PlainNext]_vars

(***************************************************************************)
(* Properties.                                                             *)
(***************************************************************************)
\* The identifiers of the records in the files of this run.
Written == UNION {Range(sinks[i]) : i \in DOMAIN sinks}

\* The executor is inside a call or has just returned from one.
InCall == ex_pc \in {"loop", "save_wait", "sleep", "ret"}

\* The call returned because its attempt budget was used up.
Exhausted == ex_pc = "ret" /\ failCount >= num_of_tries

\* C1: at every loop-iteration boundary and at termination (normal,
\* interrupted or failed), the identifiers added to the Checkpoint Set during
\* this run are exactly the identifiers of the records written to a sink.
C1_AddedIffWritten ==
    pc \in {"loop", "done", "crashed"}
        => processed_comment_ids \ loaded = Written

\* C2: detail fetches are issued only for discovered identifiers that were
\* not in the checkpoint loaded at startup, and a run that ends with every
\* detail fetch successful and without interrupt or exception leaves the
\* checkpoint file holding exactly the loaded set plus the discovered set.
C2_CrashRecovery ==
    /\ Range(fetched) \subseteq Range(comment_ids) \ loaded
    /\ (pc = "done" /\ failure = "none" /\ failedIds = {} /\ raisedIds = {})
          => Persisted = loaded \cup Range(comment_ids)

C2_Witness ==
    /\ pc = "done" /\ failure = "none" /\ failedIds = {} /\ raisedIds = {}
    /\ Cardinality(loaded \cap Range(comment_ids)) >= 2
    /\ Len(fetched) >= 2
    /\ sinks # <<>>

\* C3: a rate-limit response never consumes an attempt: the attempt counter
\* moves only with failures, every rate-limit response is followed by one
\* wait, and a call that returns a success has sent one request per
\* rate-limit response and per failure plus the successful one, which is the
\* last (r rate-limit responses then a success: r waits, r + 1 requests).
C3_RateLimitFree ==
    InCall =>
        /\ num_of_try = 1 + failCount
        /\ waitCount <= rlCount /\ rlCount <= waitCount + 1
        /\ (ex_pc = "ret" /\ resp = "success")
              => /\ waitCount = rlCount
                 /\ reqCount = rlCount + failCount + 1
                 /\ lastStatus = "success"

C3_Witness ==
    /\ ex_pc = "ret" /\ resp = "success"
    /\ num_of_tries = 1 /\ num_of_try = 1
    /\ rlCount = 2 /\ waitCount = 2 /\ reqCount = 3

\* C4: each request that ends in a network failure or in a non-success,
\* non-rate-limit status consumes one attempt, so a call never has more than
\* num_of_tries of them, whatever rate-limit responses come in between, and
\* once num_of_tries of them have occurred the call returns without sending
\* another request.
C4_BudgetInv ==
    InCall =>
        /\ failCount <= num_of_tries
        /\ failCount = num_of_try - 1
        /\ (ex_pc = "ret" /\ resp # "success") => failCount = num_of_tries

C4_AttemptBudget ==
    /\ []C4_BudgetInv
    /\ [][(ex_pc = "loop" /\ failCount >= num_of_tries)
            => (ex_pc' = "ret" /\ reqCount' = reqCount)]_vars

C4_Witness ==
    /\ Exhausted
    /\ variant = "regulations_fda_scraping"
    /\ num_of_tries = 3 /\ rlCount >= 1 /\ reqCount >= 4

\* C5 as stated: when the attempt budget is exhausted the caller gets an
\* absent response (no response object).
C5_AbsentOnExhaustion == Exhausted => resp = "None"

\* C5 amended: when the attempt budget is exhausted the caller gets the last
\* response object the call received, which has a non-success status (an
\* unexpected status, or a rate-limit status when only network failures
\* followed it); the result is absent only when no request of the call
\* received a response.
C5_LastResponseOnExhaustion ==
    Exhausted =>
        /\ resp = lastStatus
        /\ resp \in {"None", "ratelimit", "error_status", "other_status"}

C5_Witness ==
    /\ Exhausted
    /\ num_of_tries = 3
    /\ resp = "error_status"

\* C6: an interrupt or exception raised anywhere in the try block of main
\* (rotation included) does not leave main: the next position is the finally
\* clause; and once the finally clause has closed the file, and when the run
\* ends after such a failure, no file of the run is open and the checkpoint
\* file holds exactly the in-memory set.
C6_DrainInv ==
    /\ pc = "drain_save" => (~fOpen /\ ~localOpen)
    /\ (pc = "done" /\ failure # "none")
          => /\ ~fOpen
             /\ ~localOpen
             /\ ckExists
             /\ ckFile = processed_comment_ids

C6_FailureContained ==
    /\ []C6_DrainInv
    /\ [][(pc \in TryPcs /\ failure' # failure) => pc' = "drain_close"]_vars

\* C7: the flush is atomic: while a flush is in progress, and after the
\* process was interrupted during one, the checkpoint file holds either the
\* complete set it held before the flush or the complete current set; and a
\* completed flush leaves exactly the current set.
C7_FlushAtomic ==
    /\ save_pc \in {"write", "cut"}
          => Persisted \in {durable, processed_comment_ids}
    /\ save_pc = "ret" => Persisted = processed_comment_ids

\* C8: at termination, an identifier whose detail fetch gave a missing
\* response or a malformed payload is in no sink, not in the in-memory
\* Checkpoint Set and not in the checkpoint file.
C8_FailedAbsent ==
    pc \in {"done", "crashed"} =>
        \A x \in failedIds \cup raisedIds :
            /\ x \notin Written
            /\ x \notin processed_comment_ids
            /\ x \notin Persisted

C8_Witness ==
    /\ pc = "done"
    /\ failedIds # {}
    /\ Written # {}
    /\ loaded # {}

\* C9: a detail fetch that returns nothing (missing response, undecodable
\* payload, payload with missing fields) does not end the loop: the next
\* position is the loop head at the next identifier; and a run that ends
\* without interrupt or exception has fetched every identifier of
\* comments_to_process, in order.
C9_LoopInv ==
    (pc = "done" /\ failure = "none" /\ sinks # <<>>)
        => fetched = comments_to_process

C9_FailureAbsorbed ==
    /\ []C9_LoopInv
    /\ [][failedIds' # failedIds
            => (pc' = "loop" /\ idx' = idx + 1 /\ failure' = "none")]_vars

C9_Witness ==
    /\ pc = "done" /\ failure = "none"
    /\ \E i, j \in DOMAIN fetched :
          i < j /\ fetched[i] \in failedIds /\ fetched[j] \in Written

\* C10: no file of the run ever holds more than COMMENTS_PER_FILE records,
\* the counter of the current file never exceeds it, and every file closed by
\* rotation (the files before the file_counter-th) holds exactly
\* COMMENTS_PER_FILE records.
C10_SinkBound ==
    /\ current_file_comment_count <= COMMENTS_PER_FILE
    /\ \A i \in DOMAIN sinks :
          /\ Len(sinks[i]) <= COMMENTS_PER_FILE
          /\ i <= file_counter - 1 => Len(sinks[i]) = COMMENTS_PER_FILE

C10_Witness ==
    /\ Len(sinks) = 2
    /\ fOpen
    /\ file_counter = 2
    /\ Len(sinks[2]) = COMMENTS_PER_FILE

\* The records of the run: the files one after the other, in file order.
RECURSIVE Flatten(_)
Flatten(ss) == IF ss = <<>> THEN <<>> ELSE Head(ss) \o Flatten(Tail(ss))

\* C11: a run that ends without interrupt or exception, whatever detail
\* fetches succeeded or failed, and that wrote M > COMMENTS_PER_FILE records
\* has produced exactly ceil(M / COMMENTS_PER_FILE) files, and all but
\* possibly the last of them hold exactly COMMENTS_PER_FILE records.
C11_RotationCount ==
    (pc = "done" /\ failure = "none") =>
        LET M == Len(Flatten(sinks))
            N == COMMENTS_PER_FILE
        IN  M > N =>
              /\ Len(sinks) = (M + N - 1) \div N
              /\ \A i \in 1..(Len(sinks) - 1) : Len(sinks[i]) = N

\* What the last listing request came back with ("none" before the first).
LastBody == IF listBodies = <<>> THEN "none" ELSE listBodies[Len(listBodies)]

\* The listing bodies that are malformed: undecodable, a missing "data",
\* "meta" or "hasNextPage", or an item without "id".
Malformed == {"undecodable", "missing_key", "bad_item"}

\* A step in which get_comment_ids takes the answer of a listing request.
ListingAnswered == Len(listBodies') > Len(listBodies)

\* C12: a malformed listing page (undecodable body, or an expected field
\* missing anywhere in the page, an item without an id included) ends
\* discovery without raising: get_comment_ids returns the identifiers it
\* had before that page and no further listing request is issued.
C12_MalformedInv ==
    LastBody \in Malformed
        => /\ failure # "exception"
           /\ Len(listRequests) = Len(listBodies)

C12_FailSoft ==
    /\ []C12_MalformedInv
    /\ [][(ListingAnswered /\ LastBody' \in Malformed)
            => /\ pc' = "filter"
               /\ comment_ids' = comment_ids
               /\ failure' = failure]_vars

NoDup(q) == \A i, j \in DOMAIN q : i # j => q[i] # q[j]

\* The position of the first occurrence of x in q.
FirstIdx(q, x) ==
    CHOOSE i \in DOMAIN q : q[i] = x /\ \A j \in 1..(i - 1) : q[j] # x

\* C13: whatever pages the backend returns, repeats within a page and
\* across pages included, the sequence get_comment_ids builds never holds
\* an identifier twice; a parsed page leaves the earlier identifiers in
\* place and appends exactly its identifiers not seen before, in the order
\* of their first occurrence; and a page with hasNextPage true is followed
\* by the request of the next page, whether or not it held duplicates.
C13_NoDupInv == NoDup(comment_ids)

C13_Dedup ==
    /\ []C13_NoDupInv
    /\ [][(ListingAnswered /\ LastBody' \in {"more", "last"})
            => LET old == comment_ids
                   new == comment_ids'
                   added == SubSeq(new, Len(old) + 1, Len(new))
               IN  /\ Len(new) >= Len(old)
                   /\ SubSeq(new, 1, Len(old)) = old
                   /\ Range(added) = Range(pageItems') \ Range(old)
                   /\ \A i, j \in DOMAIN added :
                         i < j => FirstIdx(pageItems', added[i])
                                    < FirstIdx(pageItems', added[j])
                   /\ LastBody' = "more" => pc' = "disc_call"]_vars

C13_Witness ==
    /\ pc = "filter"
    /\ listBodies = <<"more", "last">>
    /\ pageItems = <<2, 3>>
    /\ comment_ids = <<2, 1, 3>>

\* C14: the listing pages are requested in the order 1, 2, 3, ... with no
\* number skipped or repeated; a page is requested only when every page
\* before it was received and parsed with hasNextPage true, so no request
\* follows a page whose flag is false (or that failed).
C14_PagesConsecutive ==
    /\ \A i \in DOMAIN listRequests : listRequests[i] = i
    /\ Len(listBodies) <= Len(listRequests)
    /\ Len(listRequests) <= Len(listBodies) + 1
    /\ \A i \in DOMAIN listBodies :
          i < Len(listRequests) => listBodies[i] = "more"

C14_Witness ==
    /\ pc = "disc_wait"
    /\ listRequests = <<1, 2>>
    /\ listBodies = <<"more">>
    /\ reqCount >= 2

\* C15: with a page size outside 5..250 get_comment_ids returns the empty
\* list without any request; with a page size inside the range it goes on
\* to request page 1.
C15_PageSizeInv ==
    /\ page_size \notin MIN_PAGE_SIZE..MAX_PAGE_SIZE
          => /\ listRequests = <<>>
             /\ comment_ids = <<>>
             /\ ex_pc = "idle" /\ reqCount = 0
             /\ pc \in {"discover", "filter", "crashed"}
    /\ (page_size \in MIN_PAGE_SIZE..MAX_PAGE_SIZE
           /\ pc \in {"disc_wait", "filter"})
          => /\ listRequests # <<>>
             /\ listRequests[1] = 1

C15_PageSizeRange ==
    /\ []C15_PageSizeInv
    /\ [][(pc = "discover" /\ pc' # "crashed")
            => IF page_size \in MIN_PAGE_SIZE..MAX_PAGE_SIZE
                 THEN pc' = "disc_call" /\ page_num' = 1
                 ELSE pc' = "filter" /\ comment_ids' = <<>>]_vars

C15_Witness ==
    /\ page_size = MIN_PAGE_SIZE
    /\ pc = "disc_wait"
    /\ listRequests = <<1>>
    /\ reqCount >= 1

\* C16: a call of get_requests_response with num_of_tries below 1 ends in
\* the ValueError of line 138 as its first step: no request has been sent,
\* no wait made and no checkpoint save started, and the checkpoint file is
\* as it was.
C16_RaisedInv ==
    (num_of_tries < 1 /\ ex_pc \notin {"idle", "call"})
        => /\ ex_pc = "raised"
           /\ reqCount = 0 /\ waitCount = 0 /\ rlCount = 0
           /\ save_pc = "idle"

C16_InvalidBudget ==
    /\ []C16_RaisedInv
    /\ [][(ex_pc = "call" /\ num_of_tries < 1)
            => (ex_pc' = "raised" /\ UNCHANGED <<saveVars, cntVars>>)]_vars

C16_Witness ==
    /\ ex_pc = "raised"
    /\ num_of_tries = 0
    /\ reqCount = 0

\* C18: in extract-comments.py a rate-limit wait begins only after the
\* checkpoint file has been rewritten: throughout every such wait, during
\* discovery and during detail fetching, the file exists and holds exactly
\* the in-memory set.
C18_FlushBeforeWait ==
    (variant = "extract-comments" /\ ex_pc = "sleep")
        => /\ ckExists
           /\ ckFile = processed_comment_ids
           /\ save_pc = "idle"

C18_Witness ==
    /\ ex_pc = "sleep"
    /\ pc = "detail_wait"
    /\ processed_comment_ids # loaded
    /\ durable # processed_comment_ids

\* C19: however the run ends (normally, with nothing to do, on an
\* interrupt, on any exception, a failure while the first file or a
\* replacement file is created included), no file the run opened is open.
C19_SinksClosed ==
    pc \in {"done", "crashed"} => (~fOpen /\ ~localOpen)

IsSubsequence(q, p) ==
    \E f \in [DOMAIN q -> DOMAIN p] :
        /\ \A i \in DOMAIN q : p[f[i]] = q[i]
        /\ \A i, j \in DOMAIN q : i < j => f[i] < f[j]

\* C20: the records of a run, file after file, are a subsequence of the
\* identifiers in the order get_comment_ids returned them: checkpointed and
\* failed identifiers are left out and no two records are swapped.
C20_DiscoveryOrder == IsSubsequence(Flatten(sinks), comment_ids)

C20_Witness ==
    /\ pc = "done"
    /\ comment_ids = <<3, 1, 2>>
    /\ Flatten(sinks) = <<3, 2>>
    /\ failedIds = {1}

\* C21: however the run ends (no identifiers discovered, nothing to do,
\* normal completion, interrupt, exception), the summary of lines 492-494
\* has been printed when the process exits.
C21_SummaryAlways ==
    pc \in {"done", "crashed"} => "summary" \in printed

\* C22 as stated: a checkpoint file that did not exist comes into
\* existence only after a record has been written to a file of the run.
C22_CreatedOnFirstWrite == createdBy # "none" => Written # {}

\* C22 amended: a checkpoint file that did not exist comes into existence
\* exactly when save_processed_ids first opens it, that is at the first
\* rate-limit response (during discovery too), at the first periodic save or
\* in the finally clause; only the periodic save is preceded by a written
\* record, so the file can exist, empty, before any record is written.
C22_CreatedInv ==
    /\ (ckExists \/ save_pc \in {"idle", "call"})
    /\ createdBy = "periodic" => Written # {}
    /\ createdBy # "none" => ckExists

C22_CreatedByFirstFlush ==
    /\ []C22_CreatedInv
    /\ [][(~ckExists /\ ckExists')
            => /\ save_pc = "call"
               /\ createdBy' \in {"rate_limit", "periodic", "finally"}]_vars
    /\ [][(save_pc = "call" /\ save_pc' = "write") => ckExists']_vars

C22_Witness ==
    /\ createdBy = "rate_limit"
    /\ pc = "disc_wait"
    /\ ex_pc = "sleep"
    /\ ckFile = {}
    /\ Written = {}

\* C24: whatever the size of the checkpoint loaded at startup, at every
\* boundary between two loop iterations fewer than SAVE_EVERY identifiers
\* whose records have been written are missing from the checkpoint file.
C24_PeriodicFlush ==
    pc = "loop" => Cardinality(Written \ Persisted) < SAVE_EVERY

C24_Witness ==
    /\ pc = "loop"
    /\ loaded # {}
    /\ Cardinality(Written) >= SAVE_EVERY
    /\ Cardinality(Written \ Persisted) = SAVE_EVERY - 1
    /\ Cardinality(Written \cap Persisted) > 0

\* C23: in the record of a detail payload, every optional field whose key
\* is absent or null upstream is present and is the empty string.
C23_AbsentOrNullIsEmpty ==
    pc = "built" =>
        \A f \in OptionalFields :
            (KeyOf[f] \notin DOMAIN comment_attributes
                 \/ comment_attributes[KeyOf[f]] = PyNone)
            => (f \in DOMAIN record /\ record[f] = PyStr(<<>>))

\* C25: a call of get_requests_response that receives finitely many
\* rate-limit responses ends; a rate-limit response consumes no attempt and
\* is followed by the save, the sleep and one more request, never by a
\* return, so a call that only ever receives such responses does not end.
C25_RateLimitInv ==
    ex_pc \in {"save_wait", "sleep"}
        => ~BudgetExhausted(num_of_try, num_of_tries)

C25_Termination ==
    /\ (ex_pc = "call") ~> (ex_pc \in {"ret", "raised"})
    /\ []C25_RateLimitInv
    /\ [][rlCount' = rlCount + 1
            => /\ num_of_try' = num_of_try
               /\ ex_pc' \in {"save_wait", "sleep"}]_vars
    /\ [][ex_pc = "sleep" => ex_pc' = "loop"]_vars

C25_Witness ==
    /\ ex_pc = "ret"
    /\ rlCount = MaxWaitsExec
    /\ failCount = num_of_tries
    /\ num_of_tries > 1

\* C26: in regulations_fda_scraping.py a malformed listing page (at any
\* page number) ends the run without raising: get_comment_ids returns
\* nothing, what earlier pages gave is dropped, no output file is opened and
\* no detail request is made.
C26_MalformedAborts ==
    LastBody \in Malformed
        => /\ failure # "exception"
           /\ pc \in {"plain_check", "done", "crashed"}
           /\ comment_ids = <<>>
           /\ comments_to_process = <<>>
           /\ sinks = <<>>
           /\ ~fOpen
           /\ fetched = <<>>

====
